---- MODULE Spec2Model ----
(***************************************************************************)
(* Model of the generic CRUD client (CrudService, crud.service.ts) and of  *)
(* the product facade (ProductFacade.compute) that consumes it.            *)
(*                                                                         *)
(* JavaScript values are encoded as strings so that values of different    *)
(* JavaScript types stay comparable:                                       *)
(*   "undefined", "null"      the two absent values                        *)
(*   "num:0", "num:1"         the numbers 0 and 1                          *)
(*   "str:", "str:1"          the strings "" and "1"                       *)
(* An object is the set of its <<key, value>> pairs.  An HTTP body is a    *)
(* record [k, items]: k = "null" is an empty body, k = "value" a body that *)
(* JSON.stringify accepts, k = "cyclic" one on which it throws.            *)
(***************************************************************************)
EXTENDS Integers, Sequences, FiniteSets, TLC

VARIABLES
    logger,   \* CrudService.logger: the optional injected logger
    data,     \* ProductFacade.data: the signal holding the product list
    calls,    \* every call made so far, in dispatch order
    http,     \* every request handed to HttpClient, in issue order
    queue,    \* calls whose HTTP result arrived and whose continuation is queued
    arrived,  \* order in which the HTTP results arrived
    applied   \* order in which compute calls wrote the signal

vars == <<logger, data, calls, http, queue, arrived, applied>>

----------------------------------------------------------------------------
(* Bounds *)

MaxCrudCalls == 1
MaxComputeCalls == 2

----------------------------------------------------------------------------
(* Values *)

Endpoint == "endpoint"
EntityName == "entity"

AbsentIds == {"undefined", "null"}
DefinedIds == {"num:0", "str:", "num:1"}
ReadTargets == AbsentIds \cup DefinedIds

\* `${id}` inside a template literal
ToStr(id) ==
    CASE id = "num:0" -> "0"
      [] id = "num:1" -> "1"
      [] id = "str:" -> ""
      [] id = "str:1" -> "1"
      [] id = "undefined" -> "undefined"
      [] id = "null" -> "null"

P0 == [id |-> "num:0", name |-> "A"]
PE == [id |-> "str:", name |-> "B"]
P1 == [id |-> "num:1", name |-> "C"]
Products == {P0, PE, P1}

NoProduct == [id |-> "undefined", name |-> ""]

\* run-time shapes of the `data` argument of create and update
DataArgs ==
    { {<<"name", "A">>},
      {<<"id", "num:1">>, <<"name", "A">>},
      {} }

Keys(obj) == {kv[1] : kv \in obj}

NullBody == [k |-> "null", items |-> <<>>]
EntityBodies == { [k |-> "value", items |-> <<P0>>], [k |-> "cyclic", items |-> <<P0>>] }
ListBodies ==
    { [k |-> "value", items |-> <<P0, PE, P1>>],
      [k |-> "value", items |-> <<P1, P0, P1>>],
      [k |-> "cyclic", items |-> <<PE>>] }

\* values an observable can fail with
ErrorValues == {"Error", "null", "undefined"}

NoRes == [kind |-> "none", body |-> NullBody, err |-> "-"]

Results(bodies) ==
    { [kind |-> "next", body |-> b, err |-> "-"] : b \in bodies \cup {NullBody} }
    \cup { [kind |-> "error", body |-> NullBody, err |-> e] : e \in ErrorValues }
    \cup { [kind |-> "complete", body |-> NullBody, err |-> "-"] }

Loggers == {"absent", "nolog", "present"}

----------------------------------------------------------------------------
(* CrudMeta: the message/code factory *)

CrudMetaSuccess(op, entity, id) ==
    CASE op = "create" -> [code |-> "CRUD.CREATE.SUCCESS", message |-> <<"Successfully created", entity>>]
      [] op = "read" -> [code |-> "CRUD.READ.SUCCESS", message |-> <<"Successfully read", entity, "with id:", ToStr(id)>>]
      [] op = "readAll" -> [code |-> "CRUD.READ_ALL.SUCCESS", message |-> <<"Successfully read", entity>>]
      [] op = "update" -> [code |-> "CRUD.UPDATE.SUCCESS", message |-> <<"Successfully updated", entity, "with id:", ToStr(id)>>]
      [] op = "delete" -> [code |-> "CRUD.DELETE.SUCCESS", message |-> <<"Successfully deleted", entity, "with id:", ToStr(id)>>]

CrudMetaError(op, entity, id) ==
    CASE op = "create" -> [code |-> "CRUD.CREATE.ERROR", message |-> <<"Error creating", entity>>]
      [] op = "read" -> [code |-> "CRUD.READ.ERROR", message |-> <<"Error reading", entity, "with id:", ToStr(id)>>]
      [] op = "readAll" -> [code |-> "CRUD.READ_ALL.ERROR", message |-> <<"Error reading", entity>>]
      [] op = "update" -> [code |-> "CRUD.UPDATE.ERROR", message |-> <<"Error updating", entity, "with id:", ToStr(id)>>]
      [] op = "delete" -> [code |-> "CRUD.DELETE.ERROR", message |-> <<"Error deleting", entity, "with id:", ToStr(id)>>]

CrudMetaPair(op, id) ==
    [success |-> CrudMetaSuccess(op, EntityName, id),
     error |-> CrudMetaError(op, EntityName, id)]

----------------------------------------------------------------------------
(* CrudService helpers *)

\* this.logger?.log?.(arg): arg is evaluated only when logger and log exist
LoggerCalls(lg) == lg = "present"

\* url(id)
Url(id) ==
    IF id = "undefined" \/ id = "null" THEN <<Endpoint>> ELSE <<Endpoint, ToStr(id)>>

\* createResponse(status, code, message, payload)
CreateResponse(status, code, message, payload) ==
    [status |-> status, code |-> code, message |-> message, payload |-> payload]

NoEnv == [status |-> "-", code |-> "-", message |-> <<>>, payload |-> NullBody]
NoOut == [settle |-> "-", env |-> NoEnv]

\* firstValueFrom(obs$): the first value, or a throw of the error / EmptyError
FirstValueFrom(res) ==
    CASE res.kind = "next" -> [thrown |-> FALSE, value |-> res.body, error |-> "-"]
      [] res.kind = "error" -> [thrown |-> TRUE, value |-> NullBody, error |-> res.err]
      [] res.kind = "complete" -> [thrown |-> TRUE, value |-> NullBody, error |-> "EmptyError"]

\* JSON.stringify(result) throws a TypeError
StringifyThrows(body) == body.k = "cyclic"

\* (error as Error).message throws a TypeError
MessageThrows(error) == error = "null" \/ error = "undefined"

\* request(obs$, meta)
Request(lg, res, meta) ==
    LET fv == FirstValueFrom(res)
        tryThrows == fv.thrown \/ (LoggerCalls(lg) /\ StringifyThrows(fv.value))
        error == IF fv.thrown THEN fv.error ELSE "TypeError"
    IN  IF ~tryThrows
        THEN [settle |-> "resolved",
              env |-> CreateResponse("success", meta.success.code, meta.success.message, fv.value)]
        ELSE IF LoggerCalls(lg) /\ MessageThrows(error)
        THEN [settle |-> "rejected", env |-> NoEnv]
        ELSE [settle |-> "resolved",
              env |-> CreateResponse("error", meta.error.code, meta.error.message, NullBody)]

ReadIsSingleTruthy(target) ==
    target \notin {"undefined", "null", "num:0", "str:"}

\* read(target): the single-entity branch is taken
ReadIsSingle(target) == target # "undefined" /\ target # "null"

\* which CrudMeta entry a service method uses
MetaOp(op, target) ==
    IF op = "read" THEN (IF ReadIsSingle(target) THEN "read" ELSE "readAll") ELSE op

----------------------------------------------------------------------------
(* State *)

\* a call in flight: its entry point ("service" or "compute"), the service
\* method it runs, its arguments, and its locals (res: what the observable
\* did, out: how the promise of request() settled, prev: previousValue)
Call(entry, op, type, target, dataArg, payload) ==
    [entry |-> entry, op |-> op, type |-> type, target |-> target, data |-> dataArg,
     payload |-> payload, pc |-> "pending", res |-> NoRes, out |-> NoOut,
     prev |-> <<>>]

HttpRequest(c, method, url, body) ==
    [call |-> c, method |-> method, url |-> url, body |-> body]

NoBody == {<<"-", "-">>}

Init ==
    /\ logger \in Loggers
    /\ data = <<>>
    /\ calls = <<>>
    /\ http = <<>>
    /\ queue = <<>>
    /\ arrived = <<>>
    /\ applied = <<>>

CrudCalls == {c \in DOMAIN calls : calls[c].entry = "service"}
ComputeCalls == {c \in DOMAIN calls : calls[c].entry = "compute"}

\* a service method: one request handed to HttpClient, the promise of request()
Issue(entry, op, type, target, dataArg, payload, method, url, body) ==
    /\ calls' = Append(calls, Call(entry, op, type, target, dataArg, payload))
    /\ http' = Append(http, HttpRequest(Len(calls) + 1, method, url, body))

\* create(data)
Create ==
    /\ Cardinality(CrudCalls) < MaxCrudCalls
    /\ \E d \in DataArgs :
          Issue("service", "create", "-", "undefined", d, NoProduct, "POST", Url("undefined"), d)
    /\ UNCHANGED <<logger, data, queue, arrived, applied>>

\* read(target?)
Read ==
    /\ Cardinality(CrudCalls) < MaxCrudCalls
    /\ \E t \in ReadTargets :
          IF ReadIsSingle(t)
          THEN Issue("service", "read", "-", t, NoBody, NoProduct, "GET", Url(t), NoBody)
          ELSE Issue("service", "read", "-", t, NoBody, NoProduct, "GET", Url("undefined"), NoBody)
    /\ UNCHANGED <<logger, data, queue, arrived, applied>>

\* update(target, data)
Update ==
    /\ Cardinality(CrudCalls) < MaxCrudCalls
    /\ \E p \in Products, d \in DataArgs :
          Issue("service", "update", "-", p.id, d, p, "PUT", Url(p.id), d)
    /\ UNCHANGED <<logger, data, queue, arrived, applied>>

\* delete(target)
Delete ==
    /\ Cardinality(CrudCalls) < MaxCrudCalls
    /\ \E p \in Products :
          Issue("service", "delete", "-", p.id, NoBody, p, "DELETE", Url(p.id), NoBody)
    /\ UNCHANGED <<logger, data, queue, arrived, applied>>

\* the bodies a backend answers a request with
BodiesFor(c) ==
    IF calls[c].op = "read" /\ ~ReadIsSingle(calls[c].target)
    THEN ListBodies ELSE EntityBodies

EnqueueFront(q, c) == <<c>> \o q

\* await: the continuation of the settled promise joins the microtask queue
Enqueue(q, c) == Append(q, c)

\* the observable of call c emits, errors or completes
Respond ==
    \E c \in DOMAIN calls :
        /\ calls[c].pc = "pending"
        /\ \E r \in Results(BodiesFor(c)) :
              calls' = [calls EXCEPT ![c].pc = "queued", ![c].res = r]
        /\ queue' = Enqueue(queue, c)
        /\ arrived' = Append(arrived, c)
        /\ UNCHANGED <<logger, data, http, applied>>

\* the continuation of request() runs for the call at the head of the queue
ResumeCrud ==
    /\ queue # <<>>
    /\ LET c == Head(queue)
           out == Request(logger, calls[c].res,
                          CrudMetaPair(MetaOp(calls[c].op, calls[c].target), calls[c].target))
       IN  /\ calls[c].entry = "service"
           /\ calls' = [calls EXCEPT ![c].pc = out.settle, ![c].out = out]
    /\ queue' = Tail(queue)
    /\ UNCHANGED <<logger, data, http, arrived, applied>>

NextCrud == Create \/ Read \/ Update \/ Delete \/ Respond \/ ResumeCrud

SpecCrud == Init /\ [][NextCrud]_vars

----------------------------------------------------------------------------
(* ProductFacade *)

MutationTypes ==
    {"READ_ALL_PRODUCT", "ADD_PRODUCT", "REMOVE_PRODUCT", "UPDATE_PRODUCT", "OTHER"}

ComputeCaseFallThrough(type) ==
    CASE type = "READ_ALL_PRODUCT" -> "read"
      [] type = "REMOVE_PRODUCT" -> "delete"
      [] type = "ADD_PRODUCT" -> "delete"
      [] OTHER -> "default"

\* the switch of compute: the case a mutation type selects
ComputeCase(type) ==
    CASE type = "READ_ALL_PRODUCT" -> "read"
      [] type = "REMOVE_PRODUCT" -> "delete"
      [] OTHER -> "default"

RECURSIVE FilterFirstOnly(_, _)
FilterFirstOnly(list, id) ==
    IF list = <<>> THEN <<>>
    ELSE IF Head(list).id # id
         THEN <<Head(list)>> \o FilterFirstOnly(Tail(list), id)
         ELSE Tail(list)

\* previousValue.filter(p => p.id !== id)
RECURSIVE Filter(_, _)
Filter(list, id) ==
    IF list = <<>> THEN <<>>
    ELSE IF Head(list).id # id
         THEN <<Head(list)>> \o Filter(Tail(list), id)
         ELSE Filter(Tail(list), id)

\* responseRead.payload ?? []
PayloadOrEmpty(payload) == IF payload.k = "null" THEN <<>> ELSE payload.items

RemoveProductStale(previousValue, c) ==
    LET removals == {i \in DOMAIN applied : ComputeCase(calls[applied[i]].type) = "delete"}
    IN  IF removals = {}
        THEN Filter(previousValue, calls[c].payload.id)
        ELSE Filter(calls[applied[CHOOSE i \in removals : \A j \in removals : i <= j]].prev,
                    calls[c].payload.id)

\* this.data.update(previousValue => previousValue.filter(...)) of call c
RemoveProduct(previousValue, c) == Filter(previousValue, calls[c].payload.id)

\* compute(mutation), up to its await (or to its end in the default case)
Compute ==
    /\ Cardinality(ComputeCalls) < MaxComputeCalls
    /\ \E type \in MutationTypes, p \in Products :
          LET payload == IF type = "READ_ALL_PRODUCT" THEN NoProduct ELSE p
          IN  CASE ComputeCase(type) = "read" ->
                      Issue("compute", "read", type, "undefined", NoBody, payload,
                            "GET", Url("undefined"), NoBody)
                [] ComputeCase(type) = "delete" ->
                      Issue("compute", "delete", type, payload.id, NoBody, payload,
                            "DELETE", Url(payload.id), NoBody)
                [] OTHER ->
                      /\ calls' = Append(calls,
                             [Call("compute", "-", type, "undefined", NoBody, payload)
                                 EXCEPT !.pc = "resolved"])
                      /\ http' = http
    /\ UNCHANGED <<logger, data, queue, arrived, applied>>

\* the continuations of request() and of compute run for the call at the
\* head of the queue
ResumeCompute ==
    /\ queue # <<>>
    /\ LET c == Head(queue)
           out == Request(logger, calls[c].res,
                          CrudMetaPair(MetaOp(calls[c].op, calls[c].target), calls[c].target))
       IN  /\ calls[c].entry = "compute"
           /\ CASE out.settle = "rejected" ->
                      /\ calls' = [calls EXCEPT ![c].pc = "rejected", ![c].out = out]
                      /\ UNCHANGED <<data, applied>>
                [] out.settle = "resolved" /\ ComputeCase(calls[c].type) = "read" ->
                      /\ data' = PayloadOrEmpty(out.env.payload)
                      /\ applied' = Append(applied, c)
                      /\ calls' = [calls EXCEPT ![c].pc = "resolved", ![c].out = out]
                [] out.settle = "resolved" /\ ComputeCase(calls[c].type) = "delete" ->
                      IF out.env.status = "success"
                      THEN /\ data' = RemoveProduct(data, c)
                           /\ applied' = Append(applied, c)
                           /\ calls' = [calls EXCEPT ![c].pc = "resolved", ![c].out = out,
                                                      ![c].prev = data]
                      ELSE /\ calls' = [calls EXCEPT ![c].pc = "resolved", ![c].out = out]
                           /\ UNCHANGED <<data, applied>>
    /\ queue' = Tail(queue)
    /\ UNCHANGED <<logger, http, arrived>>

Next == Compute \/ Respond \/ ResumeCompute

Spec == Init /\ [][Next]_vars

FairSpec == Spec /\ WF_vars(Respond) /\ WF_vars(ResumeCompute)

\* the lists a READ_ALL_PRODUCT (issued by ProductPage.ngOnInit) has loaded
LoadedLists == {b.items : b \in {x \in ListBodies : Len(x.items) > 1}}

\* the facade once its list is loaded and no call is in flight
InitLoaded ==
    /\ logger \in Loggers
    /\ data \in LoadedLists
    /\ calls = <<>>
    /\ http = <<>>
    /\ queue = <<>>
    /\ arrived = <<>>
    /\ applied = <<>>

SpecLoaded == InitLoaded /\ [][Next]_vars

----------------------------------------------------------------------------
(* Properties of CrudService, checked under SpecCrud *)

Settled(c) == calls[c].pc = "resolved" \/ calls[c].pc = "rejected"

RequestsOf(c) == {i \in DOMAIN http : http[i].call = c}

OwnErrorCode(c) ==
    CASE calls[c].op = "create" -> "CRUD.CREATE.ERROR"
      [] calls[c].op = "update" -> "CRUD.UPDATE.ERROR"
      [] calls[c].op = "delete" -> "CRUD.DELETE.ERROR"
      [] calls[c].op = "read" ->
            IF calls[c].target \in AbsentIds THEN "CRUD.READ_ALL.ERROR" ELSE "CRUD.READ.ERROR"

\* C1: whenever the HTTP request of a create, read, update or delete call
\* fails (the observable errors with any value, or completes empty), the
\* returned promise resolves, never rejects, and its envelope has status
\* 'error', payload null and the error code of that operation.
C1_FailureGivesErrorEnvelope ==
    \A c \in CrudCalls :
        (Settled(c) /\ calls[c].res.kind \in {"error", "complete"}) =>
            /\ calls[c].pc = "resolved"
            /\ calls[c].out.env.status = "error"
            /\ calls[c].out.env.payload = NullBody
            /\ calls[c].out.env.code = OwnErrorCode(c)

\* C2: in every envelope a CrudService operation returns, the payload is
\* non-null exactly when the status is 'success'.
C2_PayloadIffSuccess ==
    \A c \in CrudCalls :
        calls[c].pc = "resolved" =>
            ((calls[c].out.env.payload # NullBody) <=> (calls[c].out.env.status = "success"))

\* C3: read with an undefined or null argument issues GET to the base
\* endpoint and answers with the READ_ALL codes; read with any other id,
\* 0 and "" included, issues GET to endpoint/id and answers with the READ
\* codes.
C3_ReadDispatchesOnPresence ==
    \A c \in CrudCalls :
        calls[c].op = "read" =>
            /\ Cardinality(RequestsOf(c)) = 1
            /\ \A i \in RequestsOf(c) :
                  /\ http[i].method = "GET"
                  /\ http[i].url =
                        IF calls[c].target \in AbsentIds
                        THEN <<Endpoint>>
                        ELSE <<Endpoint, ToStr(calls[c].target)>>
            /\ calls[c].pc = "resolved" =>
                  IF calls[c].target \in AbsentIds
                  THEN calls[c].out.env.code \in {"CRUD.READ_ALL.SUCCESS", "CRUD.READ_ALL.ERROR"}
                  ELSE calls[c].out.env.code \in {"CRUD.READ.SUCCESS", "CRUD.READ.ERROR"}

C3_Witness ==
    \E c \in CrudCalls :
        /\ calls[c].op = "read"
        /\ calls[c].target = "str:"
        /\ calls[c].pc = "resolved"
        /\ calls[c].out.env.code = "CRUD.READ.SUCCESS"
        /\ \E i \in RequestsOf(c) : http[i].url = <<Endpoint, "">>

\* C4: update issues PUT and delete issues DELETE to endpoint/target.id, and
\* the body of the PUT never carries the field 'id', whatever the data
\* argument holds at run time.
C4_UpdateBodyOmitsId ==
    \A i \in DOMAIN http :
        LET c == http[i].call
        IN  /\ calls[c].op = "update" =>
                  /\ http[i].method = "PUT"
                  /\ http[i].url = <<Endpoint, ToStr(calls[c].payload.id)>>
                  /\ "id" \notin Keys(http[i].body)
            /\ calls[c].op = "delete" =>
                  /\ http[i].method = "DELETE"
                  /\ http[i].url = <<Endpoint, ToStr(calls[c].payload.id)>>

\* C5: a call settles the same way, with the same envelope, whether or not
\* a logger is configured: what it yields equals what the same operation,
\* arguments and HTTP result yield without a logger.
C5_LoggerDoesNotChangeOutcome ==
    \A c \in CrudCalls :
        Settled(c) =>
            calls[c].out =
                Request("absent", calls[c].res,
                        CrudMetaPair(MetaOp(calls[c].op, calls[c].target), calls[c].target))

----------------------------------------------------------------------------
(* Properties of ProductFacade, checked under Spec *)

Handled(type) == type = "READ_ALL_PRODUCT" \/ type = "REMOVE_PRODUCT"

\* the call whose continuation runs in this step
Resumed(c) == calls[c].pc = "queued" /\ calls'[c].pc # "queued"

\* C6: compute with a mutation type other than READ_ALL_PRODUCT and
\* REMOVE_PRODUCT leaves data unchanged, issues no request and resolves.
C6_UnknownMutationIsNoOp ==
    [][\A c \in DOMAIN calls' :
          ~Handled(calls'[c].type) =>
              /\ calls'[c].pc = "resolved"
              /\ \A i \in DOMAIN http' : http'[i].call # c
              /\ \A i \in DOMAIN applied' : applied'[i] # c
              /\ c \notin DOMAIN calls => (data' = data /\ http' = http)]_vars

C6_Witness ==
    \E c \in ComputeCalls :
        /\ calls[c].type = "ADD_PRODUCT"
        /\ calls[c].pc = "resolved"
        /\ data # <<>>
        /\ http # <<>>

\* C7: when a REMOVE_PRODUCT compute resolves on a successful delete
\* envelope, the list holds no element with the id of the removed product,
\* and holds every other element it held when the response was applied, in
\* the same order.
C7_RemoveDropsTheId ==
    [][\A c \in DOMAIN calls :
          (/\ Resumed(c)
           /\ calls[c].type = "REMOVE_PRODUCT"
           /\ calls'[c].pc = "resolved"
           /\ calls'[c].out.env.status = "success") =>
              /\ \A i \in DOMAIN data' : data'[i].id # calls[c].payload.id
              /\ data' = SelectSeq(data, LAMBDA p : p.id # calls[c].payload.id)]_vars

C7_Witness ==
    \E c \in ComputeCalls :
        /\ calls[c].type = "REMOVE_PRODUCT"
        /\ calls[c].pc = "resolved"
        /\ calls[c].out.env.status = "success"
        /\ Cardinality({i \in DOMAIN calls[c].prev : calls[c].prev[i].id = calls[c].payload.id}) = 2
        /\ Len(data) = 1

\* C8: compute writes data only when the awaited envelope has status
\* 'success'; on an 'error' envelope data keeps its value.
C8_OnlySuccessWritesData ==
    [][data' # data =>
          \E c \in DOMAIN calls :
              /\ Resumed(c)
              /\ calls'[c].out.env.status = "success"]_vars

\* position of call c in a sequence of calls
Pos(seq, c) == CHOOSE i \in DOMAIN seq : seq[i] = c

\* C9: the updates of two compute calls are applied in the order the calls
\* were dispatched.
C9_AppliedInDispatchOrder ==
    \A i, j \in DOMAIN applied : i < j => applied[i] < applied[j]

\* C9 (amended): the updates of two compute calls are applied in the order
\* their HTTP responses arrived.
C9_AppliedInArrivalOrder ==
    \A i, j \in DOMAIN applied :
        i < j => Pos(arrived, applied[i]) < Pos(arrived, applied[j])

C9_Witness ==
    /\ Len(applied) = 2
    /\ applied[1] > applied[2]
    /\ arrived = applied

\* C10: every compute call eventually resolves, and each call performs
\* exactly one HTTP request.
C10_EveryCallResolves ==
    /\ \A c \in 1..MaxComputeCalls :
          [](c \in DOMAIN calls => <>(c \in DOMAIN calls /\ calls[c].pc = "resolved"))
    /\ [](\A c \in DOMAIN calls : Cardinality(RequestsOf(c)) <= 1)

\* ids held by a list
IdsOf(list) == {list[i].id : i \in DOMAIN list}

SuccessfulRemoval(c) ==
    /\ calls[c].type = "REMOVE_PRODUCT"
    /\ calls[c].pc = "resolved"
    /\ calls[c].out.env.status = "success"

\* no READ_ALL_PRODUCT response was applied after the write at position i
NoReadAppliedAfter(i) ==
    \A k \in DOMAIN applied : k > i => calls[applied[k]].type # "READ_ALL_PRODUCT"

\* C11: once two REMOVE_PRODUCT calls for different ids have both resolved
\* on success envelopes, the list holds neither id, in whichever order the
\* two responses arrived, unless a READ_ALL_PRODUCT response was applied
\* after the first of the two removals; and a READ_ALL_PRODUCT response
\* applied last leaves the list equal to its payload, whatever was removed
\* before.
C11_RemovalsComposeReadsOverwrite ==
    /\ \A c1, c2 \in ComputeCalls :
          (/\ SuccessfulRemoval(c1)
           /\ SuccessfulRemoval(c2)
           /\ calls[c1].payload.id # calls[c2].payload.id
           /\ Pos(applied, c1) < Pos(applied, c2)
           /\ NoReadAppliedAfter(Pos(applied, c1))) =>
              /\ calls[c1].payload.id \notin IdsOf(data)
              /\ calls[c2].payload.id \notin IdsOf(data)
    /\ (applied # <<>> /\ calls[applied[Len(applied)]].type = "READ_ALL_PRODUCT") =>
          LET env == calls[applied[Len(applied)]].out.env
          IN  data = IF env.payload = NullBody THEN <<>> ELSE env.payload.items

\* both removals were in flight together (the later call wrote first) and
\* each removed an element the list held
C11_Witness ==
    /\ Len(applied) = 2
    /\ applied[1] > applied[2]
    /\ \A i \in {1, 2} :
          /\ SuccessfulRemoval(applied[i])
          /\ calls[applied[i]].payload.id \in IdsOf(calls[applied[i]].prev)
    /\ calls[applied[1]].payload.id # calls[applied[2]].payload.id
    /\ calls[applied[1]].payload.id \notin IdsOf(data)
    /\ calls[applied[2]].payload.id \notin IdsOf(data)
    /\ data # <<>>

\* a READ_ALL_PRODUCT response applied after a successful removal brought
\* the removed id back
C11_ReadRestoresRemoved ==
    /\ Len(applied) = 2
    /\ SuccessfulRemoval(applied[1])
    /\ calls[applied[1]].payload.id \in IdsOf(calls[applied[1]].prev)
    /\ calls[applied[2]].type = "READ_ALL_PRODUCT"
    /\ calls[applied[1]].payload.id \in IdsOf(data)

====
